---- MODULE Spec2Model ----
(***************************************************************************)
(* Verification model of the turnilo fragment:                             *)
(*   - DimensionMeasurePanel (dimension-measure-panel.tsx): the resizable  *)
(*     two-pane panel, its layout state and its window resize listener;    *)
(*   - formatter.ts: getMiddleNumber, formatterFromData, formatValue,      *)
(*     formatNumberRange, getFormattedClause / formatFilterClause;         *)
(*   - measuresDefinitionConverter.                                        *)
(* The panel is a state machine (Spec).  Each pure function is checked     *)
(* under a specification of its own whose initial states enumerate the     *)
(* inputs and whose actions apply the function.                            *)
(***************************************************************************)
EXTENDS Integers, Sequences, FiniteSets, TLC

VARIABLES
    \* ---- DimensionMeasurePanel ----
    instance,         \* which component instance is the current one (1, 2, ...)
    phase,            \* lifecycle position of the current instance
    props,            \* [dimensionsCount, measuresCount] of essence.dataCube
    containerRef,     \* "null" or "div": this.containerRef
    containerHeight,  \* this.state.containerHeight
    dividerPosition,  \* this.state.dividerPosition, an exact rational <<num, den>>
    view,             \* what the last render() produced
    rectHeight,       \* the height getBoundingClientRect() of the container reports
    listeners,        \* instances whose saveContainerRect is a "resize" listener of window
    lastEvent,        \* the handler the last step ran
    initRuns,         \* how often the current instance ran the initial-position computation
    \* ---- pure functions ----
    pc,               \* position of the pure-function run
    input,            \* the arguments drawn for the run
    output            \* the value the function returned

panelVars == <<instance, phase, props, containerRef, containerHeight, dividerPosition,
               view, rectHeight, listeners, lastEvent, initRuns>>
pureVars == <<pc, input, output>>
vars == <<instance, phase, props, containerRef, containerHeight, dividerPosition,
          view, rectHeight, listeners, lastEvent, initRuns, pc, input, output>>

(***************************************************************************)
(* Bounds of the model.                                                    *)
(***************************************************************************)
HeightStep == 50          \* container heights are multiples of HeightStep ...
MaxHeightSteps == 7       \* ... from 0 to MaxHeightSteps * HeightStep
MaxCount == 2             \* dimension and measure counts range over 1..MaxCount
MaxInstances == 2         \* how many times the panel is mounted

MaxAbs == 3              \* finite numbers range over -MaxAbs..MaxAbs
MaxLen == 3              \* arrays have at most MaxLen entries
MaxValues == 3           \* a filter clause has at most MaxValues values
MaxFormatLen == 3        \* format strings have at most MaxFormatLen characters
MaxData == 1             \* formatterFromData is given at most MaxData values

Heights == {k * HeightStep : k \in 0..MaxHeightSteps}
Counts == 1..MaxCount

(***************************************************************************)
(* Exact rationals <<num, den>> (den > 0, lowest terms) for the divider    *)
(* position, which the code computes as containerHeight * d / (d + m).     *)
(***************************************************************************)
RECURSIVE GCD(_, _)
GCD(a, b) == IF b = 0 THEN a ELSE GCD(b, a % b)

Abs(n) == IF n < 0 THEN -n ELSE n

Rat(n, d) ==
    LET g == GCD(Abs(n), d) IN
    IF g = 0 THEN <<0, 1>> ELSE <<n \div g, d \div g>>

OfInt(n) == <<n, 1>>

RLeq(a, b) == a[1] * b[2] <= b[1] * a[2]

RMin(a, b) == IF RLeq(a, b) THEN a ELSE b

RMax(a, b) == IF RLeq(a, b) THEN b ELSE a

(***************************************************************************)
(* DimensionMeasurePanel                                                   *)
(***************************************************************************)
MIN_PANEL_SIZE == 100

\* clamp of utils/dom/dom
clamp(n, lo, hi) == RMin(RMax(n, lo), hi)

Min(a, b) == IF a <= b THEN a ELSE b

Max(a, b) == IF a >= b THEN a ELSE b

dividerConstraints(height) ==
    [minDividerPosition |-> Min(MIN_PANEL_SIZE, height),
     maxDividerPosition |-> Max(height - MIN_PANEL_SIZE, 0)]

\* the part of render() the panel's behaviour depends on: whether the resize
\* handle is rendered and the bounds it is given
render(ref, height, position) ==
    [showResizeHandle |-> ref # "null",
     min |-> dividerConstraints(height).minDividerPosition,
     max |-> dividerConstraints(height).maxDividerPosition,
     initialValue |-> position]

\* the state a new instance is constructed with, and its first render
initialState == [containerHeight |-> 2 * MIN_PANEL_SIZE, dividerPosition |-> OfInt(MIN_PANEL_SIZE)]

\* the value calculateInitialPosition stores for a container of the given height
initialPosition(height, dimensionsCount, measuresCount) ==
    LET c == dividerConstraints(height) IN
    clamp(Rat(height * dimensionsCount, measuresCount + dimensionsCount),
          OfInt(c.minDividerPosition), OfInt(c.maxDividerPosition))

\* calculateInitialPosition(container): the new <<containerRef, state, ran>>
calculateInitialPosition(container, ref, state, p, height) ==
    IF container = "null"
    THEN [ref |-> ref, state |-> state, ran |-> FALSE]
    ELSE [ref |-> container,
          state |-> [containerHeight |-> height,
                     dividerPosition |-> initialPosition(height, p.dimensionsCount, p.measuresCount)],
          ran |-> TRUE]

\* saveDividerPosition(dividerPosition): setState({ dividerPosition })
saveDividerPosition(state, position) == [state EXCEPT !.dividerPosition = position]

\* a saveContainerRect that also clamps the divider to the new bounds
saveContainerRect_reclamp(state, height) ==
    [containerHeight |-> height,
     dividerPosition |-> clamp(state.dividerPosition,
                               OfInt(dividerConstraints(height).minDividerPosition),
                               OfInt(dividerConstraints(height).maxDividerPosition))]

\* saveContainerRect(): setState({ containerHeight: rect.height })
saveContainerRect(state, height) == [state EXCEPT !.containerHeight = height]

\* window.addEventListener("resize", this.saveContainerRect): registering the
\* same function twice registers it once
addEventListener(registered, i) == registered \cup {i}

\* a removeEventListener handed a different function than the registered one
removeEventListener_other(registered, i) == registered

\* window.removeEventListener("resize", this.saveContainerRect)
removeEventListener(registered, i) == registered \ {i}

\* a ref callback created anew at every render (an inline arrow function)
RefCallbackIsStable_inline == FALSE

\* the ref callback is an instance property, the same function at every render,
\* so the framework calls it at attach and at detach only
RefCallbackIsStable == TRUE

\* the value the resize handle delivers for a pointer position: clamped to the
\* min and max it was rendered with
ResizeHandleValue(raw, lo, hi) == clamp(OfInt(raw), OfInt(lo), OfInt(hi))

thisState == [containerHeight |-> containerHeight, dividerPosition |-> dividerPosition]

PanelInit ==
    /\ instance = 1
    /\ phase = "constructed"
    /\ props \in [dimensionsCount : Counts, measuresCount : Counts]
    /\ containerRef = "null"
    /\ containerHeight = initialState.containerHeight
    /\ dividerPosition = initialState.dividerPosition
    /\ view = render("null", initialState.containerHeight, initialState.dividerPosition)
    /\ rectHeight \in Heights
    /\ listeners = {}
    /\ lastEvent = "constructor"
    /\ initRuns = 0

PureIdle == pc = "idle" /\ input = <<>> /\ output = <<>>

\* first commit: the container div is attached and the ref callback runs
AttachRef ==
    /\ phase = "constructed"
    /\ LET r == calculateInitialPosition("div", containerRef, thisState, props, rectHeight) IN
        /\ containerRef' = r.ref
        /\ containerHeight' = r.state.containerHeight
        /\ dividerPosition' = r.state.dividerPosition
        /\ initRuns' = IF r.ran THEN initRuns + 1 ELSE initRuns
        /\ view' = render(r.ref, r.state.containerHeight, r.state.dividerPosition)
    /\ phase' = "attached"
    /\ lastEvent' = "calculateInitialPosition"
    /\ UNCHANGED <<instance, props, rectHeight, listeners>>
    /\ UNCHANGED pureVars

componentDidMount ==
    /\ phase = "attached"
    /\ listeners' = addEventListener(listeners, instance)
    /\ phase' = "mounted"
    /\ lastEvent' = "componentDidMount"
    /\ UNCHANGED <<instance, props, containerRef, containerHeight, dividerPosition,
                   view, rectHeight, initRuns>>
    /\ UNCHANGED pureVars

\* the user drags the resize handle, which calls onResize
Drag ==
    /\ phase = "mounted"
    /\ view.showResizeHandle
    /\ \E raw \in Heights :
        LET s == saveDividerPosition(thisState, ResizeHandleValue(raw, view.min, view.max)) IN
        /\ dividerPosition' = s.dividerPosition
        /\ containerHeight' = s.containerHeight
        /\ view' = render(containerRef, s.containerHeight, s.dividerPosition)
    /\ lastEvent' = "saveDividerPosition"
    /\ UNCHANGED <<instance, phase, props, containerRef, rectHeight, listeners, initRuns>>
    /\ UNCHANGED pureVars

\* the browser window is resized: the container gets a new height and the
\* "resize" event is dispatched to the listeners registered on window.  The
\* commit (ref callback, componentDidMount) and the unmount run to completion,
\* so an event is dispatched only between them.
WindowResize ==
    /\ phase \in {"mounted", "unmounted"}
    /\ \E h \in Heights :
        /\ rectHeight' = h
        /\ IF instance \in listeners
           THEN LET s == saveContainerRect(thisState, h) IN
                /\ dividerPosition' = s.dividerPosition
                /\ containerHeight' = s.containerHeight
                /\ view' = render(containerRef, s.containerHeight, s.dividerPosition)
                /\ lastEvent' = "saveContainerRect"
           ELSE /\ UNCHANGED <<dividerPosition, containerHeight, view>>
                /\ lastEvent' = "resizeNotDelivered"
    /\ UNCHANGED <<instance, phase, props, containerRef, listeners, initRuns>>
    /\ UNCHANGED pureVars

\* the parent re-renders the panel with new props
Rerender ==
    /\ phase = "mounted"
    /\ \E p \in [dimensionsCount : Counts, measuresCount : Counts] :
        /\ props' = p
        /\ IF RefCallbackIsStable
           THEN /\ view' = render(containerRef, containerHeight, dividerPosition)
                /\ UNCHANGED <<containerRef, containerHeight, dividerPosition, initRuns>>
           ELSE \* a fresh callback: the framework calls the old one with null
                \* and the new one with the element
                LET r0 == calculateInitialPosition("null", containerRef, thisState, p, rectHeight)
                    r == calculateInitialPosition("div", r0.ref, r0.state, p, rectHeight) IN
                /\ containerRef' = r.ref
                /\ containerHeight' = r.state.containerHeight
                /\ dividerPosition' = r.state.dividerPosition
                /\ initRuns' = IF r.ran THEN initRuns + 1 ELSE initRuns
                /\ view' = render(r.ref, r.state.containerHeight, r.state.dividerPosition)
    /\ lastEvent' = "render"
    /\ UNCHANGED <<instance, phase, rectHeight, listeners>>
    /\ UNCHANGED pureVars

componentWillUnmount ==
    /\ phase = "mounted"
    /\ listeners' = removeEventListener(listeners, instance)
    /\ phase' = "unmounting"
    /\ lastEvent' = "componentWillUnmount"
    /\ UNCHANGED <<instance, props, containerRef, containerHeight, dividerPosition,
                   view, rectHeight, initRuns>>
    /\ UNCHANGED pureVars

\* the container div is detached: the ref callback runs with null
DetachRef ==
    /\ phase = "unmounting"
    /\ LET r == calculateInitialPosition("null", containerRef, thisState, props, rectHeight) IN
        /\ containerRef' = r.ref
        /\ containerHeight' = r.state.containerHeight
        /\ dividerPosition' = r.state.dividerPosition
        /\ initRuns' = IF r.ran THEN initRuns + 1 ELSE initRuns
    /\ phase' = "unmounted"
    /\ lastEvent' = "calculateInitialPosition(null)"
    /\ UNCHANGED <<instance, props, view, rectHeight, listeners>>
    /\ UNCHANGED pureVars

\* the panel is mounted again: a new instance is constructed and rendered
Remount ==
    /\ phase = "unmounted"
    /\ instance < MaxInstances
    /\ instance' = instance + 1
    /\ phase' = "constructed"
    /\ props' \in [dimensionsCount : Counts, measuresCount : Counts]
    /\ containerRef' = "null"
    /\ containerHeight' = initialState.containerHeight
    /\ dividerPosition' = initialState.dividerPosition
    /\ view' = render("null", initialState.containerHeight, initialState.dividerPosition)
    /\ lastEvent' = "constructor"
    /\ initRuns' = 0
    /\ UNCHANGED <<rectHeight, listeners>>
    /\ UNCHANGED pureVars

Next ==
    \/ AttachRef
    \/ componentDidMount
    \/ Drag
    \/ WindowResize
    \/ Rerender
    \/ componentWillUnmount
    \/ DetachRef
    \/ Remount

Init == PanelInit /\ PureIdle

Spec == Init /\ [][Next]_vars

(***************************************************************************)
(* Properties of DimensionMeasurePanel (specification Spec)                *)
(***************************************************************************)
minDividerPosition == dividerConstraints(containerHeight).minDividerPosition
maxDividerPosition == dividerConstraints(containerHeight).maxDividerPosition

WithinBounds ==
    /\ RLeq(OfInt(minDividerPosition), dividerPosition)
    /\ RLeq(dividerPosition, OfInt(maxDividerPosition))

\* C1: in every reachable state of the panel,
\* minDividerPosition <= dividerPosition <= maxDividerPosition, the bounds
\* being dividerConstraints of the current containerHeight.
C1_LayoutInvariant == WithinBounds

\* C2: immediately after mount the stored dividerPosition is
\* clamp(h * d/(d+m), min, max) and lies within [min, max], with min and max
\* from dividerConstraints(h), for every measured height h and positive d, m.
C2_WithinBoundsAfterMount ==
    lastEvent = "calculateInitialPosition" =>
        /\ containerHeight = rectHeight
        /\ dividerPosition =
              clamp(Rat(rectHeight * props.dimensionsCount,
                        props.dimensionsCount + props.measuresCount),
                    OfInt(minDividerPosition), OfInt(maxDividerPosition))
        /\ WithinBounds

\* C3: the resize listener is registered exactly while the component is
\* mounted: at most one listener at a time, none after componentWillUnmount,
\* and a resize delivered after unmount neither calls saveContainerRect nor
\* changes the panel state.
C3_ListenerState ==
    /\ Cardinality(listeners) <= 1
    /\ listeners \subseteq {instance}
    /\ (instance \in listeners) <=> (phase = "mounted")

C3_ResizeAfterUnmount ==
    (phase = "unmounted" /\ phase' = "unmounted") =>
        /\ lastEvent' # "saveContainerRect"
        /\ UNCHANGED <<containerRef, containerHeight, dividerPosition, view>>

C3_ListenerScoped == [](C3_ListenerState) /\ [][C3_ResizeAfterUnmount]_vars

C3_Witness ==
    /\ phase = "unmounted"
    /\ instance > 1
    /\ lastEvent = "resizeNotDelivered"
    /\ rectHeight # containerHeight
    /\ listeners = {}

\* C9: saveContainerRect sets containerHeight to the container's height and
\* leaves dividerPosition as it is (not clamped to the new bounds);
\* saveDividerPosition sets dividerPosition to the value the handle delivered
\* and leaves containerHeight as it is; within one instance nothing but
\* calculateInitialPosition, saveDividerPosition and saveContainerRect
\* changes the layout state.
C9_Step ==
    /\ lastEvent' = "saveContainerRect" =>
          /\ containerHeight' = rectHeight'
          /\ dividerPosition' = dividerPosition
    /\ lastEvent' = "saveDividerPosition" =>
          /\ containerHeight' = containerHeight
          /\ \E raw \in Heights :
                dividerPosition' = ResizeHandleValue(raw, view.min, view.max)
    /\ (instance' = instance
        /\ <<containerHeight', dividerPosition'>> # <<containerHeight, dividerPosition>>) =>
          lastEvent' \in {"calculateInitialPosition", "saveDividerPosition", "saveContainerRect"}

C9_Frame == [][C9_Step]_vars

C9_Witness ==
    /\ lastEvent = "saveContainerRect"
    /\ ~RLeq(dividerPosition, OfInt(maxDividerPosition))
    /\ containerHeight >= 2 * MIN_PANEL_SIZE

\* C10: the panel becomes measured at the first ref callback with a container
\* and never returns to unmeasured: containerRef stays non-null, every later
\* render shows the resize handle, and the initial-position computation runs
\* once per instance, so it never overwrites a dragged divider position.
C10_State ==
    /\ initRuns <= 1
    /\ (containerRef = "null") <=> (phase = "constructed")
    /\ view.showResizeHandle <=> (containerRef # "null")

C10_Step ==
    (instance' = instance /\ containerRef # "null") =>
        /\ containerRef' # "null"
        /\ view'.showResizeHandle
        /\ initRuns' = initRuns
        /\ lastEvent' # "calculateInitialPosition"

C10_MeasuredOnce == [](C10_State) /\ [][C10_Step]_vars

C10_Witness ==
    /\ phase = "unmounted"
    /\ lastEvent = "calculateInitialPosition(null)"
    /\ containerRef = "div"
    /\ initRuns = 1
    /\ containerHeight = rectHeight
    /\ dividerPosition # initialPosition(containerHeight, props.dimensionsCount, props.measuresCount)

(***************************************************************************)
(* The panel is not part of the pure-function specifications.              *)
(***************************************************************************)
PanelIdle ==
    /\ instance = 0
    /\ phase = "none"
    /\ props = [dimensionsCount |-> 1, measuresCount |-> 1]
    /\ containerRef = "null"
    /\ containerHeight = 0
    /\ dividerPosition = OfInt(0)
    /\ view = render("null", 0, OfInt(0))
    /\ rectHeight = 0
    /\ listeners = {}
    /\ lastEvent = "none"
    /\ initRuns = 0

(***************************************************************************)
(* JavaScript values of formatter.ts.  A number is finite (an integer      *)
(* here), NaN or an infinity (n is its sign).                              *)
(***************************************************************************)
Num(n) == [type |-> "number", kind |-> "finite", n |-> n]
NaN == [type |-> "number", kind |-> "NaN", n |-> 0]
Infinity(sign) == [type |-> "number", kind |-> "Infinity", n |-> sign]
Null == [type |-> "null", kind |-> "null", n |-> 0]
Undefined == [type |-> "undefined", kind |-> "undefined", n |-> 0]
Bool(b) == [type |-> "boolean", kind |-> IF b THEN "true" ELSE "false", n |-> 0]
Str(s) == [type |-> "string", s |-> s]
NumberRange(start, end) == [type |-> "NumberRange", start |-> start, end |-> end]
TimeRange(text) == [type |-> "TimeRange", s |-> text]

FiniteNumbers == {Num(n) : n \in (0 - MaxAbs)..MaxAbs}
Numbers == FiniteNumbers \cup {NaN, Infinity(1), Infinity(0 - 1)}

isNaN(v) == v.kind = "NaN"
isFinite(v) == v.kind = "finite"

SeqsUpTo(S, len) == UNION {[1..k -> S] : k \in 0..len}

(***************************************************************************)
(* getMiddleNumber                                                         *)
(***************************************************************************)
\* the loop of getMiddleNumber: the absolute values of the entries it keeps
RECURSIVE filterAbs(_)
filterAbs(values) ==
    IF values = <<>> THEN <<>>
    ELSE LET v == Head(values) IN
         IF (v.kind = "finite" /\ v.n = 0) \/ isNaN(v) \/ ~isFinite(v)
         THEN filterAbs(Tail(values))
         ELSE <<Abs(v.n)>> \o filterAbs(Tail(values))

\* the comparators: (a, b) => b - a, and (a, b) => a - b
bMinusA(a, b) == b - a
aMinusB(a, b) == a - b

compare(comparator, a, b) == IF comparator = "b - a" THEN bMinusA(a, b) ELSE aMinusB(a, b)

\* Array.prototype.sort(comparator): x goes before y when comparator(x, y) < 0.
\* Insertion of x into a sequence already in that order.
RECURSIVE insertSorted(_, _, _)
insertSorted(x, sorted, comparator) ==
    IF sorted = <<>> THEN <<x>>
    ELSE IF compare(comparator, Head(sorted), x) <= 0
         THEN <<Head(sorted)>> \o insertSorted(x, Tail(sorted), comparator)
         ELSE <<x>> \o sorted

RECURSIVE sort(_, _)
sort(data, comparator) ==
    IF data = <<>> THEN <<>>
    ELSE insertSorted(Head(data), sort(Tail(data), comparator), comparator)

\* Math.ceil(p / 2) for p >= 0
CeilHalf(p) == (p + 1) \div 2

\* a getMiddleNumber whose comparator is a - b
getMiddleNumber_ascending(values) ==
    LET filteredAbsData == filterAbs(values)
        n == Len(filteredAbsData) IN
    IF n # 0
    THEN sort(filteredAbsData, "a - b")[CeilHalf(n - 1) + 1]
    ELSE 0

getMiddleNumber(values) ==
    LET filteredAbsData == filterAbs(values)
        n == Len(filteredAbsData) IN
    IF n # 0
    THEN sort(filteredAbsData, "b - a")[CeilHalf(n - 1) + 1]
    ELSE 0

MiddleInit ==
    /\ PanelIdle
    /\ pc = "getMiddleNumber"
    /\ input \in SeqsUpTo(Numbers, MaxLen)
    /\ output = 0

MiddleCall ==
    /\ pc = "getMiddleNumber"
    /\ output' = getMiddleNumber(input)
    /\ pc' = "returned"
    /\ UNCHANGED input
    /\ UNCHANGED panelVars

MiddleNext ==
    \/ MiddleCall

SpecMiddle == MiddleInit /\ [][MiddleNext]_vars

\* the entries getMiddleNumber counts, and their absolute values
ValidAt(values, i) == values[i].kind = "finite" /\ values[i].n # 0
ValidIndices(values) == {i \in 1..Len(values) : ValidAt(values, i)}
CountAbove(values, r) == Cardinality({i \in ValidIndices(values) : Abs(values[i].n) > r})
CountAtLeast(values, r) == Cardinality({i \in ValidIndices(values) : Abs(values[i].n) >= r})

\* r is the absolute value at 0-based position k of the valid absolute values
\* ordered from the largest to the smallest
IsRanked(values, r, k) ==
    /\ \E i \in ValidIndices(values) : Abs(values[i].n) = r
    /\ CountAbove(values, r) <= k
    /\ CountAtLeast(values, r) >= k + 1

Reverse(q) == [i \in 1..Len(q) |-> q[Len(q) + 1 - i]]
Negate(q) == [i \in 1..Len(q) |-> IF q[i].kind = "NaN" THEN q[i] ELSE [q[i] EXCEPT !.n = 0 - q[i].n]]

\* C5 (as claimed): getMiddleNumber returns the median of the absolute values
\* of the valid entries, the larger of the two middle values when their
\* number is even, and 0 when there is none.
C5_UpperMedian ==
    pc = "returned" =>
        LET n == Cardinality(ValidIndices(input)) IN
        IF n = 0 THEN output = 0
        ELSE IsRanked(input, output, (n - 1) \div 2)

\* C5 (amended): getMiddleNumber returns the median of the absolute values of
\* the valid entries, the smaller of the two middle values when their number
\* is even, and 0 when there is none; the order and the signs of the entries
\* do not change the result.
C5_LowerMedian ==
    pc = "returned" =>
        LET n == Cardinality(ValidIndices(input)) IN
        /\ IF n = 0 THEN output = 0
           ELSE IsRanked(input, output, n \div 2)
        /\ getMiddleNumber(Reverse(input)) = output
        /\ getMiddleNumber(Negate(input)) = output

C5_Witness ==
    /\ pc = "returned"
    /\ Cardinality(ValidIndices(input)) = 2
    /\ Len(input) = 3
    /\ \E i, j \in ValidIndices(input) : Abs(input[i].n) < Abs(input[j].n) /\ output = Abs(input[i].n)
    /\ \E i \in 1..Len(input) : ~ValidAt(input, i)

(***************************************************************************)
(* formatValue, formatNumberRange                                          *)
(***************************************************************************)
\* "" + value
toStr(value) ==
    CASE value.type = "string" -> value.s
      [] value.type = "number" /\ value.kind = "finite" -> ToString(value.n)
      [] value.type = "number" /\ value.kind = "NaN" -> "NaN"
      [] value.type = "number" /\ value.kind = "Infinity" ->
            IF value.n < 0 THEN "-Infinity" ELSE "Infinity"
      [] value.type = "boolean" -> value.kind
      [] value.type = "null" -> "null"
      [] value.type = "undefined" -> "undefined"
      [] OTHER -> "[object Object]"

\* whether a value counts as true in  value || other
truthy(value) ==
    CASE value.type = "string" -> value.s # ""
      [] value.type = "number" -> value.kind = "Infinity" \/ (value.kind = "finite" /\ value.n # 0)
      [] value.type = "boolean" -> value.kind = "true"
      [] value.type = "null" -> FALSE
      [] value.type = "undefined" -> FALSE
      [] OTHER -> TRUE

\* a || b
orElse(a, b) == IF truthy(a) THEN a ELSE b

\* formatTimeRange of utils/time/time: the text of the range
formatTimeRange(value) == value.s

RECURSIVE formatValue(_)
formatNumberRange(value) ==
    formatValue(orElse(value.start, Str("any"))) \o " to " \o formatValue(orElse(value.end, Str("any")))

formatValue(value) ==
    IF value.type = "NumberRange" THEN formatNumberRange(value)
    ELSE IF value.type = "TimeRange" THEN formatTimeRange(value)
    ELSE toStr(value)

RangeBounds == FiniteNumbers \cup {Null}
NumberRanges == {NumberRange(a, b) : a, b \in RangeBounds}
TimeRanges == {TimeRange("Jan 1 - Jan 2, 2018")}
PlainValues == FiniteNumbers \cup {Str("any"), Str("en"), Bool(TRUE), Null}

ValueInit ==
    /\ PanelIdle
    /\ pc = "formatValue"
    /\ input \in NumberRanges \cup TimeRanges \cup PlainValues
    /\ output = ""

ValueCall ==
    /\ pc = "formatValue"
    /\ output' = formatValue(input)
    /\ pc' = "returned"
    /\ UNCHANGED input
    /\ UNCHANGED panelVars

ValueNext ==
    \/ ValueCall

SpecValue == ValueInit /\ [][ValueNext]_vars

\* how a range bound is to be shown: "any" for an open end, else its value
BoundText(bound) == IF bound.type = "null" THEN "any" ELSE ToString(bound.n)

\* C6: formatValue on a numeric range returns "{start} to {end}" with the
\* range's own bounds, zero included, and "any" only for an open end.
C6_RangeNamesBounds ==
    (pc = "returned" /\ input.type = "NumberRange") =>
        output = BoundText(input.start) \o " to " \o BoundText(input.end)

(***************************************************************************)
(* getFormattedClause, formatFilterClause                                  *)
(***************************************************************************)
\* STRINGS of client/config/constants
STRINGS == [previous |-> "Previous", current |-> "Current", latest |-> "Latest", quarter |-> "Quarter"]

\* String.prototype.toLowerCase, on the words it is applied to
toLowerCase(text) == IF text = "Quarter" THEN "quarter" ELSE text

\* Duration.getDescription() of chronoshift
getDescription(duration) ==
    CASE duration = "P1D" -> "day"
      [] duration = "P3D" -> "3 days"
      [] duration = "P3M" -> "3 months"
      [] OTHER -> duration

\* isTimeFilter of models/filter-clause
isTimeFilter(clause) == clause.class \in {"FixedTimeFilterClause", "RelativeTimeFilterClause"}

getQualifiedDurationDescription(duration) ==
    IF duration = "P3M" THEN toLowerCase(STRINGS.quarter) ELSE getDescription(duration)

getFormattedTimeClauseValues(clause) ==
    IF clause.class = "FixedTimeFilterClause"
    THEN formatTimeRange(clause.values[1])
    ELSE CASE clause.period = "previous" ->
                 STRINGS.previous \o " " \o getQualifiedDurationDescription(clause.duration)
           [] clause.period = "current" ->
                 STRINGS.current \o " " \o getQualifiedDurationDescription(clause.duration)
           [] clause.period = "latest" ->
                 STRINGS.latest \o " " \o getQualifiedDurationDescription(clause.duration)

\* setElements.first()
first(setElements) == IF Len(setElements) = 0 THEN Undefined ELSE setElements[1]

getFilterClauseValues(clause) ==
    IF isTimeFilter(clause) THEN getFormattedTimeClauseValues(clause)
    ELSE LET setElements == clause.values
             values0 == IF Len(setElements) > 1
                        THEN "(" \o ToString(Len(setElements)) \o ")"
                        ELSE formatValue(first(setElements))
             values1 == IF clause.class = "StringFilterClause" /\ clause.action = "match"
                        THEN "/" \o values0 \o "/" ELSE values0
             values2 == IF clause.class = "StringFilterClause" /\ clause.action = "contains"
                        THEN "\"" \o values1 \o "\"" ELSE values1 IN
         values2

\* a getClauseLabel without the test of the number of values
getClauseLabel_alwaysDelimited(clause, dimension) ==
    IF isTimeFilter(clause) THEN ""
    ELSE dimension.title \o
         (IF clause.class = "StringFilterClause" /\ clause.action \in {"match", "contains"}
          THEN " ~" ELSE ":")

getClauseLabel(clause, dimension) ==
    LET dimensionTitle == dimension.title IN
    IF isTimeFilter(clause) THEN ""
    ELSE LET delimiter == IF clause.class = "StringFilterClause"
                             /\ clause.action \in {"match", "contains"}
                          THEN " ~" ELSE ":" IN
         IF Len(clause.values) > 1 THEN dimensionTitle
         ELSE dimensionTitle \o delimiter

getFormattedClause(dimension, clause) ==
    [title |-> getClauseLabel(clause, dimension), values |-> getFilterClauseValues(clause)]

formatFilterClause(dimension, clause) ==
    LET formatted == getFormattedClause(dimension, clause) IN
    IF formatted.title # "" THEN formatted.title \o " " \o formatted.values
    ELSE formatted.values

\* the sequences of distinct elements of S, of at most len elements
DistinctSeqs(S, len) ==
    {q \in SeqsUpTo(S, len) : \A i, j \in 1..Len(q) : i # j => q[i] # q[j]}

Clause(class, action, values, period, duration) ==
    [class |-> class, action |-> action, values |-> values, period |-> period, duration |-> duration]

StringClauses ==
    {Clause("StringFilterClause", a, v, "", "") :
        a \in {"in", "match", "contains"},
        v \in DistinctSeqs({Str("en"), Str("fr"), Str("de")}, MaxValues)}
BooleanClauses ==
    {Clause("BooleanFilterClause", "", v, "", "") : v \in DistinctSeqs({Bool(TRUE), Bool(FALSE)}, MaxValues)}
NumberClauses ==
    {Clause("NumberFilterClause", "", v, "", "") :
        v \in DistinctSeqs({NumberRange(Num(1), Num(3)), NumberRange(Null, Num(2)), NumberRange(Num(0), Null)}, MaxValues)}
FixedTimeClauses ==
    {Clause("FixedTimeFilterClause", "", <<t>>, "", "") : t \in TimeRanges}
RelativeTimeClauses ==
    {Clause("RelativeTimeFilterClause", "", <<>>, p, d) :
        p \in {"previous", "current", "latest"}, d \in {"P1D", "P3D", "P3M"}}
Clauses == StringClauses \cup BooleanClauses \cup NumberClauses \cup FixedTimeClauses
              \cup RelativeTimeClauses
Dimensions == {[title |-> "Language"], [title |-> "Time"]}

ClauseInit ==
    /\ PanelIdle
    /\ pc = "getFormattedClause"
    /\ input \in [dimension : Dimensions, clause : Clauses]
    /\ output = [title |-> "", values |-> "", text |-> ""]

ClauseCall ==
    /\ pc = "getFormattedClause"
    /\ output' = [title |-> getFormattedClause(input.dimension, input.clause).title,
                  values |-> getFormattedClause(input.dimension, input.clause).values,
                  text |-> formatFilterClause(input.dimension, input.clause)]
    /\ pc' = "returned"
    /\ UNCHANGED input
    /\ UNCHANGED panelVars

ClauseNext ==
    \/ ClauseCall

SpecClause == ClauseInit /\ [][ClauseNext]_vars

CountText(clause) == "(" \o ToString(Len(clause.values)) \o ")"

\* C8 (as claimed): for a non-time clause with more than one value, of every
\* kind and every string-filter action, title is the bare dimension name and
\* values is "(N)"; for a time clause title is empty and formatFilterClause
\* returns values alone.
C8_BareCount ==
    pc = "returned" =>
        /\ (~isTimeFilter(input.clause) /\ Len(input.clause.values) > 1) =>
              /\ output.title = input.dimension.title
              /\ output.values = CountText(input.clause)
        /\ isTimeFilter(input.clause) =>
              /\ output.title = ""
              /\ output.text = output.values

\* C8 (amended): for a non-time clause with more than one value, title is the
\* bare dimension name; values is "(N)", which a string clause with action
\* MATCH wraps in slashes and one with action CONTAINS wraps in double
\* quotes; for a time clause title is empty and formatFilterClause returns
\* values alone.
C8_CountWrappedByAction ==
    pc = "returned" =>
        /\ (~isTimeFilter(input.clause) /\ Len(input.clause.values) > 1) =>
              /\ output.title = input.dimension.title
              /\ output.text = input.dimension.title \o " " \o output.values
              /\ output.values =
                    CASE input.clause.action = "match" -> "/" \o CountText(input.clause) \o "/"
                      [] input.clause.action = "contains" -> "\"" \o CountText(input.clause) \o "\""
                      [] OTHER -> CountText(input.clause)
        /\ isTimeFilter(input.clause) =>
              /\ output.title = ""
              /\ output.text = output.values

C8_Witness ==
    /\ pc = "returned"
    /\ input.clause.class = "StringFilterClause"
    /\ input.clause.action = "match"
    /\ Len(input.clause.values) = 2
    /\ output.title = "Language"
    /\ output.values = "/(2)/"

(***************************************************************************)
(* formatterFromData.  A format string is a sequence of characters; the    *)
(* text numeral produces is kept as the term numeral(value / scale)        *)
(* .format(format) + append.                                               *)
(***************************************************************************)
\* the scale tables: a multiplier is base^exp
scales ==
    [a |-> ("" :> [defined |-> TRUE, base |-> 1000, exp |-> 0]
            @@ "k" :> [defined |-> TRUE, base |-> 1000, exp |-> 1]
            @@ "m" :> [defined |-> TRUE, base |-> 1000, exp |-> 2]
            @@ "b" :> [defined |-> TRUE, base |-> 1000, exp |-> 3]
            @@ "t" :> [defined |-> TRUE, base |-> 1000, exp |-> 4]),
     b |-> ("B" :> [defined |-> TRUE, base |-> 1024, exp |-> 0]
            @@ "KB" :> [defined |-> TRUE, base |-> 1024, exp |-> 1]
            @@ "MB" :> [defined |-> TRUE, base |-> 1024, exp |-> 2]
            @@ "GB" :> [defined |-> TRUE, base |-> 1024, exp |-> 3]
            @@ "TB" :> [defined |-> TRUE, base |-> 1024, exp |-> 4]
            @@ "PB" :> [defined |-> TRUE, base |-> 1024, exp |-> 5]
            @@ "EB" :> [defined |-> TRUE, base |-> 1024, exp |-> 6]
            @@ "ZB" :> [defined |-> TRUE, base |-> 1024, exp |-> 7]
            @@ "YB" :> [defined |-> TRUE, base |-> 1024, exp |-> 8])]

NoScale == [defined |-> FALSE, base |-> 0, exp |-> 0]

\* scales[formatType][unit], undefined for a unit the table does not hold
scaleOf(formatType, unit) ==
    IF unit \in DOMAIN scales[formatType] THEN scales[formatType][unit] ELSE NoScale

\* the largest e <= most with base^e <= x
RECURSIVE magnitude(_, _, _)
magnitude(x, base, most) ==
    IF x < base \/ most = 0 THEN 0 ELSE 1 + magnitude(x \div base, base, most - 1)

\* numeral(middle).format("0 " + formatType).split(" ")[1] || "" : the unit
\* numeral picks for the magnitude of middle (none below 1000, and for bytes
\* none below 1)
unitOfMiddle(middle, formatType) ==
    IF formatType = "a"
    THEN <<"", "k", "m", "b", "t">>[magnitude(middle, 1000, 4) + 1]
    ELSE IF middle < 1 THEN ""
         ELSE <<"B", "KB", "MB", "GB", "TB", "PB", "EB", "ZB", "YB">>[magnitude(middle, 1024, 8) + 1]

isWhitespace(c) == c = " "

\* format.match(/^(\S*)( ?)([ab])$/): the groups, \S* taking as much as it can
match(format) ==
    LET splits == {g \in [numberFormat : 0..Len(format), space : {0, 1}] :
                      /\ g.numberFormat + g.space + 1 = Len(format)
                      /\ \A i \in 1..g.numberFormat : ~isWhitespace(format[i])
                      /\ g.space = 1 => format[g.numberFormat + 1] = " "
                      /\ format[Len(format)] \in {"a", "b"}} IN
    IF splits = {} THEN [matched |-> FALSE, numberFormat |-> <<>>, space |-> <<>>, formatType |-> ""]
    ELSE LET g == CHOOSE x \in splits : \A y \in splits : y.numberFormat <= x.numberFormat IN
         [matched |-> TRUE,
          numberFormat |-> SubSeq(format, 1, g.numberFormat),
          space |-> SubSeq(format, g.numberFormat + 1, g.numberFormat + g.space),
          formatType |-> format[Len(format)]]

\* the formatter formatterFromData returns, as the values its closure holds
formatterFromData(values, format) ==
    LET m == match(format) IN
    IF m.matched
    THEN LET middle == getMiddleNumber(values)
             unit == unitOfMiddle(middle, m.formatType)
             scale == scaleOf(m.formatType, unit)
             append == IF unit # "" THEN m.space \o <<unit>> ELSE <<>> IN
         [scaled |-> TRUE, format |-> m.numberFormat, scale |-> scale, append |-> append]
    ELSE [scaled |-> FALSE, format |-> format, scale |-> NoScale, append |-> <<>>]

\* a test for NaN alone
notANumber_onlyNaN(n) == isNaN(n)

\* isNaN(n) || !isFinite(n)
notANumber(n) == isNaN(n) \/ ~isFinite(n)

Dash == [kind |-> "text", text |-> "-", value |-> NaN, scaled |-> FALSE, scale |-> NoScale,
         format |-> <<>>, append |-> <<>>]

\* the returned formatter applied to n
applyFormatter(formatter, n) ==
    IF notANumber(n) THEN Dash
    ELSE [kind |-> "numeral", text |-> "", value |-> n, scaled |-> formatter.scaled,
          scale |-> formatter.scale, format |-> formatter.format, append |-> formatter.append]

FormatChars == {"0", " ", "a", "b"}
Formats == SeqsUpTo(FormatChars, MaxFormatLen)
DataNumbers == {Num(0), Num(5), Num(0 - 1500), Num(2000000), NaN, Infinity(1)}
FormatterArgs == {NaN, Infinity(1), Infinity(0 - 1), Num(0), Num(1500)}
NoFormatter == [scaled |-> FALSE, format |-> <<>>, scale |-> NoScale, append |-> <<>>]

FormatterInit ==
    /\ PanelIdle
    /\ pc = "formatterFromData"
    /\ input \in [values : SeqsUpTo(DataNumbers, MaxData), format : Formats, n : FormatterArgs]
    /\ output = [formatter |-> NoFormatter, result |-> Dash]

FormatterFromData ==
    /\ pc = "formatterFromData"
    /\ output' = [output EXCEPT !.formatter = formatterFromData(input.values, input.format)]
    /\ pc' = "formatter"
    /\ UNCHANGED input
    /\ UNCHANGED panelVars

FormatterApply ==
    /\ pc = "formatter"
    /\ output' = [output EXCEPT !.result = applyFormatter(output.formatter, input.n)]
    /\ pc' = "returned"
    /\ UNCHANGED input
    /\ UNCHANGED panelVars

FormatterNext ==
    \/ FormatterFromData
    \/ FormatterApply

SpecFormatter == FormatterInit /\ [][FormatterNext]_vars

\* the format is <numberFormat><optional space><a|b>
FitsPattern(format) ==
    /\ Len(format) >= 1
    /\ format[Len(format)] \in {"a", "b"}
    /\ \A i \in 1..(Len(format) - 1) : format[i] = " " => i = Len(format) - 1

\* C7: whatever the values and the format, the formatter maps NaN, +Infinity
\* and -Infinity to "-"; with a format that does not fit the pattern it
\* applies the whole format string to the unscaled input.
C7_NonFiniteIsDash ==
    pc = "returned" =>
        /\ (input.n.kind # "finite") => (output.result.kind = "text" /\ output.result.text = "-")
        /\ (input.n.kind = "finite" /\ ~FitsPattern(input.format)) =>
              /\ output.result.kind = "numeral"
              /\ output.result.value = input.n
              /\ ~output.result.scaled
              /\ output.result.format = input.format
              /\ output.result.append = <<>>
        /\ (input.n.kind = "finite" /\ FitsPattern(input.format)) => output.result.scaled

C7_Witness ==
    /\ pc = "returned"
    /\ input.n = Infinity(0 - 1)
    /\ output.formatter.scaled
    /\ output.formatter.append = <<" ", "k">>
    /\ output.result.text = "-"

(***************************************************************************)
(* measuresDefinitionConverter.  An OrderedSet is kept as the sequence of  *)
(* its elements in insertion order; an array is a plain sequence.          *)
(***************************************************************************)
OrderedSet(elements) == [collection |-> "OrderedSet", elements |-> elements]

Contains(q, x) == \E i \in 1..Len(q) : q[i] = x

\* an OrderedSet.of in which a repeated value moves to the end
RECURSIVE addAllMovingRepeats(_, _)
addAllMovingRepeats(elements, values) ==
    IF values = <<>> THEN elements
    ELSE addAllMovingRepeats(SelectSeq(elements, LAMBDA x : x # Head(values)) \o <<Head(values)>>,
                             Tail(values))

OrderedSetOf_lastWins(values) == OrderedSet(addAllMovingRepeats(<<>>, values))

\* OrderedSet.of(...values): the values are added one by one, and adding a
\* value the set already holds changes nothing
RECURSIVE addAll(_, _)
addAll(elements, values) ==
    IF values = <<>> THEN elements
    ELSE addAll(IF Contains(elements, Head(values)) THEN elements
                ELSE Append(elements, Head(values)),
                Tail(values))

OrderedSetOf(values) == OrderedSet(addAll(<<>>, values))

\* OrderedSet.toArray()
toArray(set) == set.elements

\* createMeasures of models/essence: the record of the given fields
createMeasures(fields) == fields

fromEssenceMeasures(measures) ==
    [isMulti |-> measures.isMulti, single |-> measures.single, multi |-> toArray(measures.multi)]

toEssenceMeasures(measures) ==
    createMeasures([isMulti |-> measures.isMulti, single |-> measures.single,
                    multi |-> OrderedSetOf(measures.multi)])

MeasureNames == {"count", "added", "delta"}
SingleNames == {"count", "added"}
Definitions == [isMulti : BOOLEAN, single : SingleNames, multi : SeqsUpTo(MeasureNames, MaxLen)]
MeasuresValues ==
    [isMulti : BOOLEAN, single : SingleNames,
     multi : {OrderedSet(q) : q \in DistinctSeqs(MeasureNames, MaxLen)}]
NoDefinition == [isMulti |-> FALSE, single |-> "count", multi |-> <<>>]
NoMeasures == [isMulti |-> FALSE, single |-> "count", multi |-> OrderedSet(<<>>)]

MeasuresInit ==
    /\ PanelIdle
    /\ pc = "start"
    /\ \/ input \in [from : {"measures"}, measures : MeasuresValues, definition : {NoDefinition}]
       \/ input \in [from : {"definition"}, measures : {NoMeasures}, definition : Definitions]
    /\ output = [measures |-> NoMeasures, definition |-> NoDefinition]

\* fromEssenceMeasures, of the given Measures or of the one toEssenceMeasures returned
FromEssenceMeasures ==
    /\ \/ /\ pc = "start"
          /\ input.from = "measures"
          /\ output' = [output EXCEPT !.definition = fromEssenceMeasures(input.measures)]
          /\ pc' = "converted"
       \/ /\ pc = "converted"
          /\ input.from = "definition"
          /\ output' = [output EXCEPT !.definition = fromEssenceMeasures(output.measures)]
          /\ pc' = "returned"
    /\ UNCHANGED input
    /\ UNCHANGED panelVars

\* toEssenceMeasures, of the given definition or of the one fromEssenceMeasures returned
ToEssenceMeasures ==
    /\ \/ /\ pc = "start"
          /\ input.from = "definition"
          /\ output' = [output EXCEPT !.measures = toEssenceMeasures(input.definition)]
          /\ pc' = "converted"
       \/ /\ pc = "converted"
          /\ input.from = "measures"
          /\ output' = [output EXCEPT !.measures = toEssenceMeasures(output.definition)]
          /\ pc' = "returned"
    /\ UNCHANGED input
    /\ UNCHANGED panelVars

MeasuresNext ==
    \/ FromEssenceMeasures
    \/ ToEssenceMeasures

SpecMeasures == MeasuresInit /\ [][MeasuresNext]_vars

HasDuplicates(q) == \E i, j \in 1..Len(q) : i # j /\ q[i] = q[j]
FirstIndex(q, x) == CHOOSE i \in 1..Len(q) : q[i] = x /\ \A j \in 1..(i - 1) : q[j] # x

\* r is q with its duplicates removed, the first occurrence of each kept
IsFirstOccurrences(r, q) ==
    /\ ~HasDuplicates(r)
    /\ {r[i] : i \in 1..Len(r)} = {q[i] : i \in 1..Len(q)}
    /\ \A i, j \in 1..Len(r) : i < j => FirstIndex(q, r[i]) < FirstIndex(q, r[j])

\* C4: toEssenceMeasures(fromEssenceMeasures(m)) has the isMulti, the single
\* and the multi elements of m, in the same order; and
\* fromEssenceMeasures(toEssenceMeasures(d)) has the isMulti and single of d,
\* and as multi d.multi with duplicates removed, first occurrences kept,
\* which is d.multi exactly when d.multi has no duplicates.
C4_InversePair ==
    pc = "returned" =>
        /\ input.from = "measures" =>
              /\ output.measures.isMulti = input.measures.isMulti
              /\ output.measures.single = input.measures.single
              /\ output.measures.multi.elements = input.measures.multi.elements
              /\ output.definition.multi = input.measures.multi.elements
        /\ input.from = "definition" =>
              /\ output.definition.isMulti = input.definition.isMulti
              /\ output.definition.single = input.definition.single
              /\ IsFirstOccurrences(output.definition.multi, input.definition.multi)
              /\ (output.definition.multi = input.definition.multi)
                    <=> ~HasDuplicates(input.definition.multi)

C4_Witness ==
    /\ pc = "returned"
    /\ input.from = "definition"
    /\ input.definition.multi = <<"count", "added", "count">>
    /\ output.definition.multi = <<"count", "added">>

====
